---- MODULE Spec2Model ----
(***************************************************************************)
(* Model of the security-header middleware of src/csp/mod.ts.              *)
(*                                                                         *)
(* csp(userOptions) merges the user's overrides over `defaults` once and   *)
(* returns a request handler.  The handler awaits the downstream handler   *)
(* (next), then runs eight header rules, in source order, on the headers   *)
(* of the response that next produced, and returns that response.  A       *)
(* serializer that throws aborts the handler where it stands.              *)
(*                                                                         *)
(* JavaScript values are records tagged with their typeof in field t.      *)
(* A Headers object is a function from header name to its value, NoHeader  *)
(* standing for a name the collection does not hold.                       *)
(***************************************************************************)
EXTENDS Integers, Sequences, FiniteSets, TLC

VARIABLES
    userOptions,  \* the argument of csp(): a record holding the overridden keys
    options,      \* the effective configuration captured by the handler
    pc,           \* pc[r]: where the handling of request r stands
    downstream,   \* downstream[r]: the headers of the response as next produced them
    response,     \* response[r]: the headers of the response, mutated in place
    touched,      \* touched[r]: header names on which the handler called set or delete
    failed        \* failed[r]: the header whose serializer threw, NoHeader if none

vars == <<userOptions, options, pc, downstream, response, touched, failed>>

----------------------------------------------------------------------------
(* Bounds of the model *)

\* number of requests the handler is handling concurrently
MaxRequests == 2

\* largest number of keys a userOptions record overrides
MaxOverrides == 3

Requests == 1 .. MaxRequests

----------------------------------------------------------------------------
(* JavaScript values *)

Undefined == [t |-> "undefined"]
Bool(b) == [t |-> "boolean", b |-> b]
Str(s) == [t |-> "string", s |-> s]
Num(n) == [t |-> "number", n |-> n, nan |-> FALSE]
NaN == [t |-> "number", n |-> 0, nan |-> TRUE]
Arr(a) == [t |-> "object", array |-> TRUE, a |-> a]

\* typeof v
TypeOf(v) == v.t

\* the test of `if (v)`
Truthy(v) ==
    CASE v.t = "undefined" -> FALSE
      [] v.t = "boolean" -> v.b
      [] v.t = "string" -> v.s # ""
      [] v.t = "number" -> ~v.nan /\ v.n # 0
      [] OTHER -> TRUE

\* `${v}` of a template literal
TemplateString(v) ==
    CASE v.t = "undefined" -> "undefined"
      [] v.t = "string" -> v.s
      [] v.t = "boolean" -> IF v.b THEN "true" ELSE "false"
      [] v.t = "number" -> IF v.nan THEN "NaN" ELSE ToString(v.n)
      [] OTHER -> "[object Object]"

\* Array.prototype.join
RECURSIVE Join(_, _)
Join(a, sep) ==
    IF Len(a) = 0 THEN ""
    ELSE IF Len(a) = 1 THEN a[1]
    ELSE a[1] \o sep \o Join(Tail(a), sep)

----------------------------------------------------------------------------
(* Options and defaults *)

DEFAULT_MAX_AGE == 365 * 86400

StrictTransportSecurityOptions(maxAge, includeSubDomains, preload) ==
    [t |-> "object", maxAge |-> maxAge,
     includeSubDomains |-> includeSubDomains, preload |-> preload]

ExpectCtOptions(maxAge, enforce, reportUri) ==
    [t |-> "object", maxAge |-> maxAge, enforce |-> enforce, reportUri |-> reportUri]

STS == "Strict-Transport-Security"
RP == "Referrer-Policy"
ECT == "Expect-CT"
XFO == "X-Frame-Options"
XCTO == "X-Content-Type-Options"
XXSS == "X-XSS-Protection"
XPCDP == "X-Permitted-Cross-Domain-Policies"
XPB == "X-Powered-By"

\* the keys of Options, in the order the handler applies them
OptionKeys == <<STS, RP, ECT, XFO, XCTO, XXSS, XPCDP, XPB>>

Keys == { OptionKeys[i] : i \in 1 .. Len(OptionKeys) }

defaults ==
    (STS :> StrictTransportSecurityOptions(Num(DEFAULT_MAX_AGE), Bool(TRUE), Bool(TRUE)))
    @@ (RP :> Arr(<<"no-referrer", "strict-origin-when-cross-origin">>))
    @@ (ECT :> ExpectCtOptions(Num(DEFAULT_MAX_AGE), Bool(TRUE),
                               Str("https://localhost:8000/report/")))
    @@ (XFO :> Bool(TRUE))
    @@ (XCTO :> Bool(TRUE))
    @@ (XXSS :> Bool(TRUE))
    @@ (XPCDP :> Bool(TRUE))
    @@ (XPB :> Str("Fake Server"))

\* merge of lume/core/utils.ts as the specification describes it: a key the
\* user record holds replaces the default's, whatever its value
merge(d, user) ==
    [k \in DOMAIN d \cup DOMAIN user |-> IF k \in DOMAIN user THEN user[k] ELSE d[k]]

\* the configuration a call csp(user) captures
csp(user) == merge(defaults, user)

----------------------------------------------------------------------------
(* The values a caller may give each key *)

OptionValues(k) ==
    CASE k = STS ->
            { Undefined,
              StrictTransportSecurityOptions(Num(-1), Bool(TRUE), Bool(TRUE)),
              StrictTransportSecurityOptions(Num(0), Undefined, Undefined),
              StrictTransportSecurityOptions(Num(3600), Bool(TRUE), Bool(FALSE)),
              StrictTransportSecurityOptions(NaN, Bool(FALSE), Bool(TRUE)),
              StrictTransportSecurityOptions(Str("3600"), Bool(TRUE), Bool(TRUE)),
              StrictTransportSecurityOptions(Undefined, Bool(TRUE), Bool(TRUE)) }
      [] k = RP ->
            { Undefined, Str(""), Str("origin"), Arr(<<>>), Arr(<<"no-referrer">>),
              Arr(<<"origin", "same-origin">>) }
      [] k = ECT ->
            { Undefined,
              ExpectCtOptions(Num(60), Bool(FALSE), Str("https://x")),
              ExpectCtOptions(Num(60), Bool(TRUE), Str("https://x")),
              ExpectCtOptions(Num(60), Bool(TRUE), Undefined),
              ExpectCtOptions(Num(0), Undefined, Undefined),
              ExpectCtOptions(Num(-1), Bool(TRUE), Str("https://x")),
              ExpectCtOptions(Str("60"), Bool(FALSE), Str("https://x")) }
      [] k = XFO -> { Bool(TRUE), Bool(FALSE), Str("DENY") }
      [] k = XCTO -> { Bool(TRUE), Bool(FALSE) }
      [] k = XXSS -> { Bool(TRUE), Bool(FALSE) }
      [] k = XPCDP -> { Bool(TRUE), Bool(FALSE), Str("all") }
      [] OTHER -> { Bool(TRUE), Bool(FALSE), Str("MyServer") }

\* every record whose keys are exactly those of S
RECURSIVE RecordsOver(_)
RecordsOver(S) ==
    IF S = {} THEN { <<>> }
    ELSE LET k == CHOOSE x \in S : TRUE
         IN { (k :> v) @@ f : v \in OptionValues(k), f \in RecordsOver(S \ {k}) }

UserOptions ==
    UNION { RecordsOver(S) : S \in { T \in SUBSET Keys : Cardinality(T) <= MaxOverrides } }

----------------------------------------------------------------------------
(* Headers *)

NoHeader == "<no header>"

OtherHeader == "Content-Type"

HeaderNames == Keys \cup { OtherHeader }

NoHeaders == [n \in HeaderNames |-> NoHeader]

\* headers.append in the place of headers.set
HeadersAppend(h, name, value) ==
    [h EXCEPT ![name] = IF h[name] = NoHeader THEN value ELSE h[name] \o ", " \o value]

\* Headers.prototype.set
HeadersSet(h, name, value) == [h EXCEPT ![name] = value]

\* Headers.prototype.delete
HeadersDelete(h, name) == [h EXCEPT ![name] = NoHeader]

\* the value the downstream handler gives a header it sets
DownstreamValue(n) == IF n = OtherHeader THEN "text/html" ELSE "downstream " \o n

\* the header sets a downstream response may carry
DownstreamHeaderSets ==
    { {}, Keys, HeaderNames } \cup { { n } : n \in HeaderNames }

DownstreamHeaders ==
    { [n \in HeaderNames |-> IF n \in S THEN DownstreamValue(n) ELSE NoHeader] :
        S \in DownstreamHeaderSets }

----------------------------------------------------------------------------
(* Serializers.  A call yields [threw, value]: value is the string returned, *)
(* or the message of the Error thrown.                                       *)

Return(v) == [threw |-> FALSE, value |-> v]
Throw(msg) == [threw |-> TRUE, value |-> msg]

\* maxAge < 0, for a maxAge of type number (NaN compares false)
LessThanZero(v) == ~v.nan /\ v.n < 0

\* validateMaxAge with `maxAge <= 0` for `maxAge < 0`
validateMaxAgePositive(maxAge) ==
    IF TypeOf(maxAge) # "number" \/ (~maxAge.nan /\ maxAge.n <= 0)
    THEN Throw("CSP Middleware: maxAge must be type number and a positive value")
    ELSE Return(maxAge)

validateMaxAge(maxAge) ==
    IF TypeOf(maxAge) # "number" \/ LessThanZero(maxAge)
    THEN Throw("CSP Middleware: maxAge must be type number and a positive value")
    ELSE IF TypeOf(maxAge) = "undefined"
    THEN Return(Num(DEFAULT_MAX_AGE))
    ELSE Return(maxAge)

\* getStrictTransportSecurity joining its tokens with ", "
getStrictTransportSecurityComma(o) ==
    LET maxAge == validateMaxAge(o.maxAge)
        headerValue ==
            <<"max-age=" \o TemplateString(maxAge.value)>>
            \o (IF Truthy(o.includeSubDomains) THEN <<"includeSubDomains">> ELSE <<>>)
            \o (IF Truthy(o.preload) THEN <<"preload">> ELSE <<>>)
    IN IF maxAge.threw THEN maxAge ELSE Return(Join(headerValue, ", "))

getStrictTransportSecurity(o) ==
    LET maxAge == validateMaxAge(o.maxAge)
        headerValue ==
            <<"max-age=" \o TemplateString(maxAge.value)>>
            \o (IF Truthy(o.includeSubDomains) THEN <<"includeSubDomains">> ELSE <<>>)
            \o (IF Truthy(o.preload) THEN <<"preload">> ELSE <<>>)
    IN IF maxAge.threw THEN maxAge ELSE Return(Join(headerValue, "; "))

getReferrerPolicy(o) ==
    LET headerValue == IF TypeOf(o) = "string" THEN <<o.s>> ELSE o.a
    IN IF Len(headerValue) = 0
       THEN Throw("CSP Middleware: Referrer-Policy is enabled but empty")
       ELSE Return(Join(headerValue, ", "))

\* getExpectCt with the report-uri token gated on report-uri itself
getExpectCtReportUriGated(o) ==
    LET maxAge == validateMaxAge(o.maxAge)
        headerValue ==
            <<"max-age=" \o TemplateString(maxAge.value)>>
            \o (IF Truthy(o.enforce) THEN <<"enforce">> ELSE <<>>)
            \o (IF Truthy(o.reportUri)
                THEN <<"report-uri=\"" \o TemplateString(o.reportUri) \o "\"">>
                ELSE <<>>)
    IN IF maxAge.threw THEN maxAge ELSE Return(Join(headerValue, ", "))

getExpectCt(o) ==
    LET maxAge == validateMaxAge(o.maxAge)
        headerValue ==
            <<"max-age=" \o TemplateString(maxAge.value)>>
            \o (IF Truthy(o.enforce) THEN <<"enforce">> ELSE <<>>)
            \o (IF Truthy(o.enforce)
                THEN <<"report-uri=\"" \o TemplateString(o.reportUri) \o "\"">>
                ELSE <<>>)
    IN IF maxAge.threw THEN maxAge ELSE Return(Join(headerValue, ", "))

----------------------------------------------------------------------------
(* The eight rules of the handler.  A rule yields [threw, headers, touched]: *)
(* the headers as it leaves them and the names it called set or delete on.   *)

Applied(h, names) == [threw |-> FALSE, headers |-> h, touched |-> names]
Aborted(h) == [threw |-> TRUE, headers |-> h, touched |-> {}]

StrictTransportSecurityRule(o, h) ==
    IF Truthy(o[STS])
    THEN LET strictTranportSecurity == getStrictTransportSecurity(o[STS])
         IN IF strictTranportSecurity.threw THEN Aborted(h)
            ELSE Applied(HeadersSet(h, STS, strictTranportSecurity.value), {STS})
    ELSE Applied(h, {})

ReferrerPolicyRule(o, h) ==
    IF Truthy(o[RP])
    THEN LET referrerPolicy == getReferrerPolicy(o[RP])
         IN IF referrerPolicy.threw THEN Aborted(h)
            ELSE Applied(HeadersSet(h, RP, referrerPolicy.value), {RP})
    ELSE Applied(h, {})

ExpectCtRule(o, h) ==
    IF Truthy(o[ECT])
    THEN LET expectCt == getExpectCt(o[ECT])
         IN IF expectCt.threw THEN Aborted(h)
            ELSE Applied(HeadersSet(h, ECT, expectCt.value), {ECT})
    ELSE Applied(h, {})

XFrameOptionsRule(o, h) ==
    IF TypeOf(o[XFO]) = "string"
    THEN Applied(HeadersSet(h, XFO, o[XFO].s), {XFO})
    ELSE IF o[XFO] # Bool(FALSE)
    THEN Applied(HeadersSet(h, XFO, "SAMEORIGIN"), {XFO})
    ELSE Applied(h, {})

\* the X-Content-Type-Options rule setting Content-Type
XContentTypeOptionsRuleContentType(o, h) ==
    IF Truthy(o[XCTO])
    THEN Applied(HeadersSet(h, OtherHeader, "nosniff"), {OtherHeader})
    ELSE Applied(h, {})

XContentTypeOptionsRule(o, h) ==
    IF Truthy(o[XCTO])
    THEN Applied(HeadersSet(h, XCTO, "nosniff"), {XCTO})
    ELSE Applied(h, {})

XXssProtectionRule(o, h) ==
    IF Truthy(o[XXSS])
    THEN Applied(HeadersSet(h, XXSS, "1; mode=block"), {XXSS})
    ELSE Applied(h, {})

XPermittedCrossDomainPoliciesRule(o, h) ==
    IF TypeOf(o[XPCDP]) = "string"
    THEN Applied(HeadersSet(h, XPCDP, o[XPCDP].s), {XPCDP})
    ELSE IF o[XPCDP] # Bool(FALSE)
    THEN Applied(HeadersSet(h, XPCDP, "none"), {XPCDP})
    ELSE Applied(h, {})

XPoweredByRule(o, h) ==
    IF TypeOf(o[XPB]) = "string"
    THEN Applied(HeadersSet(h, XPB, o[XPB].s), {XPB})
    ELSE IF o[XPB] # Bool(FALSE)
    THEN Applied(HeadersDelete(h, XPB), {XPB})
    ELSE Applied(h, {})

\* the i-th rule of the handler, in source order
Rule(i, o, h) ==
    CASE i = 1 -> StrictTransportSecurityRule(o, h)
      [] i = 2 -> ReferrerPolicyRule(o, h)
      [] i = 3 -> ExpectCtRule(o, h)
      [] i = 4 -> XFrameOptionsRule(o, h)
      [] i = 5 -> XContentTypeOptionsRule(o, h)
      [] i = 6 -> XXssProtectionRule(o, h)
      [] i = 7 -> XPermittedCrossDomainPoliciesRule(o, h)
      [] OTHER -> XPoweredByRule(o, h)

\* RunRules going on to the later rules after a rule threw
RECURSIVE RunRulesBestEffort(_, _, _)
RunRulesBestEffort(i, o, st) ==
    IF i > Len(OptionKeys) THEN st
    ELSE LET out == Rule(i, o, st.headers)
         IN IF out.threw
            THEN RunRulesBestEffort(i + 1, o,
                    [st EXCEPT !.threw = TRUE,
                               !.failed = IF st.threw THEN st.failed ELSE OptionKeys[i]])
            ELSE RunRulesBestEffort(i + 1, o,
                    [st EXCEPT !.headers = out.headers,
                               !.touched = st.touched \cup out.touched])

\* the rules from the i-th on, run on the state st = [threw, failed, headers,
\* touched] the earlier ones left; the first rule that throws ends the run
RECURSIVE RunRules(_, _, _)
RunRules(i, o, st) ==
    IF i > Len(OptionKeys) THEN st
    ELSE LET out == Rule(i, o, st.headers)
         IN IF out.threw
            THEN [st EXCEPT !.threw = TRUE, !.failed = OptionKeys[i]]
            ELSE RunRules(i + 1, o, [st EXCEPT !.headers = out.headers,
                                               !.touched = st.touched \cup out.touched])

\* the handler from the line after the await to its return or throw
ApplyHeaders(o, h) ==
    RunRules(1, o, [threw |-> FALSE, failed |-> NoHeader, headers |-> h, touched |-> {}])

----------------------------------------------------------------------------
(* The state machine *)

\* the state after csp(userOptions), before any request
Construct(users) ==
    /\ userOptions \in users
    /\ options = csp(userOptions)
    /\ pc = [r \in Requests |-> "idle"]
    /\ downstream = [r \in Requests |-> NoHeaders]
    /\ response = [r \in Requests |-> NoHeaders]
    /\ touched = [r \in Requests |-> {}]
    /\ failed = [r \in Requests |-> NoHeader]

Init == Construct(UserOptions)

\* the handler is called for request r: it calls next(request) and suspends
Handle(r) ==
    /\ pc[r] = "idle"
    /\ pc' = [pc EXCEPT ![r] = "awaiting"]
    /\ UNCHANGED <<userOptions, options, downstream, response, touched, failed>>

\* the downstream handler of request r fulfils its promise with a response
NextResolve(r) ==
    /\ pc[r] = "awaiting"
    /\ \E h \in DownstreamHeaders :
        /\ downstream' = [downstream EXCEPT ![r] = h]
        /\ response' = [response EXCEPT ![r] = h]
    /\ pc' = [pc EXCEPT ![r] = "resolved"]
    /\ UNCHANGED <<userOptions, options, touched, failed>>

\* the downstream handler of request r throws or rejects
NextReject(r) ==
    /\ pc[r] = "awaiting"
    /\ pc' = [pc EXCEPT ![r] = "nextRejected"]
    /\ UNCHANGED <<userOptions, options, downstream, response, touched, failed>>

\* Resume running the rules also when the downstream handler failed
ResumeOnRejection(r) ==
    /\ pc[r] \in {"resolved", "nextRejected"}
    /\ LET out == ApplyHeaders(options, response[r])
       IN /\ response' = [response EXCEPT ![r] = out.headers]
          /\ touched' = [touched EXCEPT ![r] = out.touched]
          /\ failed' = [failed EXCEPT ![r] = out.failed]
          /\ pc' = [pc EXCEPT ![r] = IF out.threw THEN "threw" ELSE "returned"]
    /\ UNCHANGED <<userOptions, options, downstream>>

\* the handler of request r resumes after the await with the response and
\* runs the rules to its return or to the first throw
Resume(r) ==
    /\ pc[r] = "resolved"
    /\ LET out == ApplyHeaders(options, response[r])
       IN /\ response' = [response EXCEPT ![r] = out.headers]
          /\ touched' = [touched EXCEPT ![r] = out.touched]
          /\ failed' = [failed EXCEPT ![r] = out.failed]
          /\ pc' = [pc EXCEPT ![r] = IF out.threw THEN "threw" ELSE "returned"]
    /\ UNCHANGED <<userOptions, options, downstream>>

\* the await of request r throws the downstream failure out of the handler
Propagate(r) ==
    /\ pc[r] = "nextRejected"
    /\ pc' = [pc EXCEPT ![r] = "rejected"]
    /\ UNCHANGED <<userOptions, options, downstream, response, touched, failed>>

\* one request through the handler
Next ==
    \/ Handle(1)
    \/ NextResolve(1)
    \/ NextReject(1)
    \/ Resume(1)
    \/ Propagate(1)

\* every configuration of UserOptions, one request
Spec == Init /\ [][Next]_vars

\* the configurations of the concurrent specification: the defaults, a
\* configuration whose first rule throws, one whose third rule throws, and one
\* that deletes X-Powered-By
ConcurrentUserOptions ==
    { <<>>,
      STS :> StrictTransportSecurityOptions(Num(-1), Bool(TRUE), Bool(TRUE)),
      ECT :> ExpectCtOptions(Num(-1), Bool(TRUE), Str("https://x")),
      XPB :> Bool(TRUE) }

ConcurrentInit == Construct(ConcurrentUserOptions)

ConcurrentNext ==
    \E r \in Requests :
        \/ Handle(r)
        \/ NextResolve(r)
        \/ NextReject(r)
        \/ Resume(r)
        \/ Propagate(r)

\* the requests of Requests handled concurrently, their steps interleaved
SpecConcurrent == ConcurrentInit /\ [][ConcurrentNext]_vars

----------------------------------------------------------------------------
(* Properties *)

\* the keys that take a boolean flag
BooleanFlagKeys == { XFO, XCTO, XXSS, XPCDP, XPB }

\* the position of key k in the order of application
KeyIndex(k) == CHOOSE i \in 1 .. Len(OptionKeys) : OptionKeys[i] = k

\* a max-age that is not of type number, or is a number below zero
InvalidMaxAge(v) == v.t # "number" \/ (~v.nan /\ v.n < 0)

\* the effective configuration holds a record for k whose max-age is invalid
HasInvalidMaxAge(k) == options[k].t = "object" /\ InvalidMaxAge(options[k].maxAge)

\* the effective configuration holds the empty list for Referrer-Policy
HasEmptyReferrerPolicy == options[RP].t = "object" /\ Len(options[RP].a) = 0

\* C1: on every returned response the X-Powered-By rule has set the header to
\* the option's string, has deleted it when the option is false, and has left
\* it as the downstream handler produced it, untouched, when the option is true.
C1_XPoweredByAsSpecified ==
    \A r \in Requests :
        pc[r] = "returned" =>
            IF options[XPB].t = "string"
            THEN response[r][XPB] = options[XPB].s
            ELSE IF options[XPB] = Bool(FALSE)
            THEN response[r][XPB] = NoHeader
            ELSE response[r][XPB] = downstream[r][XPB] /\ XPB \notin touched[r]

\* C2: a boolean-flag key set to false leaves the returned response without
\* that header, whatever the downstream handler had put on it.
C2_DisabledHeaderAbsent ==
    \A r \in Requests :
        pc[r] = "returned" =>
            \A k \in BooleanFlagKeys :
                options[k] = Bool(FALSE) => response[r][k] = NoHeader

\* C3: with no user overrides the handler returns, and the returned response
\* carries the default value of each of the eight headers in the place of
\* whatever the downstream handler had set.
C3_DefaultApplication ==
    \A r \in Requests :
        (DOMAIN userOptions = {} /\ pc[r] \in {"returned", "threw"}) =>
            /\ pc[r] = "returned"
            /\ response[r][STS] = "max-age=31536000; includeSubDomains; preload"
            /\ response[r][RP] = "no-referrer, strict-origin-when-cross-origin"
            /\ response[r][ECT] # NoHeader
            /\ response[r][ECT] # downstream[r][ECT]
            /\ response[r][XFO] = "SAMEORIGIN"
            /\ response[r][XCTO] = "nosniff"
            /\ response[r][XXSS] = "1; mode=block"
            /\ response[r][XPCDP] = "none"
            /\ response[r][XPB] = "Fake Server"

C3_Witness ==
    /\ DOMAIN userOptions = {}
    /\ pc[1] = "returned"
    /\ \A k \in Keys : downstream[1][k] = DownstreamValue(k)
    /\ response[1][XPB] = "Fake Server"

C6_OutboundFrame ==
    \A r \in Requests :
        /\ touched[r] \subseteq Keys
        /\ \A n \in HeaderNames \ Keys : response[r][n] = downstream[r][n]

C6_Witness ==
    /\ pc[1] = "threw"
    /\ touched[1] # {}
    /\ downstream[1][OtherHeader] # NoHeader
    /\ response[1][OtherHeader] = downstream[1][OtherHeader]

\* C7: running the rules a second time on a returned response, with the same
\* configuration, returns again and leaves every header as the first run did.
C7_Idempotence ==
    \A r \in Requests :
        pc[r] = "returned" =>
            LET again == ApplyHeaders(options, response[r])
            IN ~again.threw /\ again.headers = response[r]

C7_Witness ==
    /\ pc[1] = "returned"
    /\ response[1] # downstream[1]
    /\ downstream[1][STS] # NoHeader
    /\ options[XPB] = Bool(TRUE)

\* C8: the Expect-CT header of a returned response is max-age=<n> alone when
\* enforce is falsy, and max-age=<n>, enforce, report-uri="<uri>" when enforce
\* is truthy, whether or not report-uri is set; the tokens are joined by ", ".
C8_ExpectCtGating ==
    \A r \in Requests :
        (pc[r] = "returned" /\ options[ECT].t = "object") =>
            LET o == options[ECT]
                maxAge == "max-age=" \o (IF o.maxAge.nan THEN "NaN" ELSE ToString(o.maxAge.n))
            IN IF o.enforce = Bool(TRUE)
               THEN response[r][ECT] =
                        maxAge \o ", enforce, report-uri=\"" \o
                        (IF o.reportUri.t = "string" THEN o.reportUri.s ELSE "undefined")
                        \o "\""
               ELSE response[r][ECT] = maxAge

C8_Witness ==
    /\ pc[1] = "returned"
    /\ options[ECT] = ExpectCtOptions(Num(60), Bool(FALSE), Str("https://x"))
    /\ response[1][ECT] = "max-age=60"

\* C9: when a rule's serializer throws, the failing rule and every later rule
\* have called neither set nor delete and their headers are as the downstream
\* handler produced them, and every earlier rule that is enabled has set its
\* header, which the response still carries.
C9_PartialApplication ==
    \A r \in Requests :
        pc[r] = "threw" =>
            /\ failed[r] \in Keys
            /\ \A j \in KeyIndex(failed[r]) .. Len(OptionKeys) :
                /\ OptionKeys[j] \notin touched[r]
                /\ response[r][OptionKeys[j]] = downstream[r][OptionKeys[j]]
            /\ \A j \in 1 .. KeyIndex(failed[r]) - 1 :
                IF Truthy(options[OptionKeys[j]])
                THEN /\ OptionKeys[j] \in touched[r]
                     /\ response[r][OptionKeys[j]] =
                            Rule(j, options, NoHeaders).headers[OptionKeys[j]]
                     /\ response[r][OptionKeys[j]] # NoHeader
                ELSE /\ OptionKeys[j] \notin touched[r]
                     /\ response[r][OptionKeys[j]] = downstream[r][OptionKeys[j]]

C9_Witness ==
    /\ pc[1] = "threw"
    /\ failed[1] = ECT
    /\ touched[1] = { STS, RP }
    /\ downstream[1][XFO] # NoHeader
    /\ response[1][STS] # downstream[1][STS]

\* C10: in every interleaving, the handler calls set or delete on a request's
\* response only in a step taken after that request's downstream handler has
\* fulfilled; once the downstream handler of a request has failed, the request
\* ends rejected and no rule is ever applied for it.
C10_DownstreamOrdering ==
    /\ [](\A r \in Requests :
            /\ touched[r] # {} => pc[r] \in {"returned", "threw"}
            /\ pc[r] \in {"nextRejected", "rejected"} =>
                    touched[r] = {} /\ response[r] = NoHeaders)
    /\ [][\A r \in Requests :
            /\ touched'[r] # touched[r] => pc[r] = "resolved"
            /\ pc[r] \in {"nextRejected", "rejected"} =>
                    pc'[r] \in {"nextRejected", "rejected"} /\ touched'[r] = {}]_vars

C10_Witness ==
    /\ pc[1] = "rejected"
    /\ touched[1] = {}
    /\ pc[2] = "returned"
    /\ touched[2] # {}

====
